---- MODULE Spec2Model ----
(***************************************************************************)
(* Model of the parallel LLM execution engine                              *)
(* (cogniware-opea-ims/python/parallel_llm_executor.py): the strategy      *)
(* dispatch of ParallelLLMExecutor.execute_parallel, the thread pool the   *)
(* pooled strategies submit to, the per-future result(timeout=30) waits,   *)
(* the synthesizer and the statistics ledger.                              *)
(*                                                                         *)
(* Units: time is in whole seconds; an LLMResponse's confidence_score is   *)
(* in hundredths (95 is 0.95); a ParallelExecutionResult's                 *)
(* confidence_score is in thousandths (0.7*0.95 + 0.3*0.85 is 920);        *)
(* parallel_speedup is the fraction <<numerator, denominator>>.            *)
(* Texts are sequences of tokens, the empty text is <<>>; Python's None    *)
(* is the string None below, and the empty string is "".                   *)
(*                                                                         *)
(* The body of _execute_single_llm is a placeholder for the inference      *)
(* engine: a call is modelled by what its body can do (Behaviours), not by *)
(* the canned texts. Left out, because nothing below depends on them:      *)
(* llm_name, tokens_generated and metadata of the records,                 *)
(* total_processing_time_ms, average_speedup, total_time_saved_ms, and the *)
(* timestamp, prompt, time_ms and speedup of a history entry.              *)
(*                                                                         *)
(* Specifications: Spec and FairSpec follow one thread through one         *)
(* execute call of any strategy; ConcSpec follows two threads that call    *)
(* the shared executor at the same time, with the ledger update split at   *)
(* each read and store; LedgerSpec follows one thread through a long run   *)
(* of recorded calls; WideSpec follows one thread through parallel calls   *)
(* that ask for more models than the catalog has; SuccessiveSpec follows   *)
(* one thread through two parallel calls whose models behave the same in   *)
(* both; BestSpec follows one thread through parallel calls whose models   *)
(* may answer with confidence 0; OrderSpec follows one thread through      *)
(* pooled calls whose models answer in any order.                          *)
(***************************************************************************)
EXTENDS Integers, Sequences, FiniteSets, TLC

\* ------------------------------------------------------------ constants

\* parallel_executor = ParallelLLMExecutor(max_workers=8)
max_workers == 8

\* future.result(timeout=30)
Timeout == 30

\* llms[:3] in _execute_consensus
ConsensusMax == 3

\* num_interface_llms: int = 2, num_knowledge_llms: int = 1
DefaultInterface == 2
DefaultKnowledge == 1

\* self.execution_history[-10:] in get_statistics
HistoryWindow == 10

\* executions one caller makes, one after the other
MaxExecutions == 1

\* executions one caller makes, one after the other, when only the ledger
\* is followed
MaxRecorded == 11

\* executions one caller makes, one after the other, when the pool is
\* followed from one execution into the next
MaxSuccessive == 2

None == "None"
\* the remaining run time of a body that never returns
Never == 0 - 1

\* ------------------------------------------------------------- catalog

COGNIWARE_LLMS ==
  << [model_id |-> "cogniware-chat-7b",        model_type |-> "interface"],
     [model_id |-> "cogniware-chat-13b",       model_type |-> "interface"],
     [model_id |-> "cogniware-code-7b",        model_type |-> "interface"],
     [model_id |-> "cogniware-code-13b",       model_type |-> "interface"],
     [model_id |-> "cogniware-knowledge-7b",   model_type |-> "knowledge"],
     [model_id |-> "cogniware-knowledge-13b",  model_type |-> "knowledge"],
     [model_id |-> "cogniware-embed-base",     model_type |-> "embedding"],
     [model_id |-> "cogniware-embed-large",    model_type |-> "embedding"],
     [model_id |-> "cogniware-sql-7b",         model_type |-> "interface"],
     [model_id |-> "cogniware-summarize-7b",   model_type |-> "interface"],
     [model_id |-> "cogniware-translate-7b",   model_type |-> "interface"],
     [model_id |-> "cogniware-sentiment-base", model_type |-> "specialized"] >>

IsType(t, llm) == llm.model_type = t

get_llms_by_type(model_type) ==
  SelectSeq(COGNIWARE_LLMS, LAMBDA llm : IsType(model_type, llm))

get_interface_llms == get_llms_by_type("interface")

get_knowledge_llms == get_llms_by_type("knowledge")

Min(a, b) == IF a <= b THEN a ELSE b

\* s[:n] for n >= 0
Slice(s, n) == SubSeq(s, 1, Min(n, Len(s)))

\* --------------------------------------------------------------- inputs

Callers == {"c1", "c2"}

Strategies ==
  {"parallel", "interface_only", "knowledge_only", "sequential", "consensus"}

\* the (module, context) arguments of an execute call
Jobs == { [module |-> "code_generation", context |-> "ctx_code"],
          [module |-> "documents",       context |-> "ctx_docs"] }

NumInterfaceChoices == 0 .. DefaultInterface

NumKnowledgeChoices == 0 .. DefaultKnowledge

Confidences == {30, 95}

Durations == {1, 45}

\* What the opaque body of one model call does: it ends normally after dur
\* seconds with a confidence, raises an exception after dur seconds, or
\* never returns.
Behaviours ==
  { [kind |-> "ok", conf |-> c, dur |-> d] : c \in Confidences, d \in Durations }
  \cup { [kind |-> "exc", conf |-> 0, dur |-> 1] }
  \cup { [kind |-> "hang", conf |-> 0, dur |-> Never] }

\* ------------------------------------------------------- pure functions

RawPrompt == <<"prompt">>

_format_interface_prompt(prompt) == <<"interface_template">> \o prompt

_format_knowledge_prompt(prompt) == <<"knowledge_template">> \o prompt

LLMRequest(llm, llm_type, prompt) ==
  [llm_id |-> llm.model_id, llm_type |-> llm_type, prompt |-> prompt]

\* _execute_single_llm without its except clause taking effect: the failure
\* is not turned into a failed LLMResponse
SingleLLMResponse_Unguarded(request, module, context, b) ==
  [llm_id |-> request.llm_id, llm_type |-> request.llm_type,
   response_text |-> <<"response", request.llm_id, module, context>>,
   confidence_score |-> b.conf, processing_time |-> b.dur,
   success |-> TRUE, error |-> None]

\* The return value of _execute_single_llm for a body that behaves as b and
\* has read module and context from the executor: the LLMResponse of the
\* normal path, or the one built by the except clause.
SingleLLMResponse(request, module, context, b) ==
  IF b.kind = "ok"
  THEN [llm_id |-> request.llm_id, llm_type |-> request.llm_type,
        response_text |-> <<"response", request.llm_id, module, context>>,
        confidence_score |-> b.conf, processing_time |-> b.dur,
        success |-> TRUE, error |-> None]
  ELSE [llm_id |-> request.llm_id, llm_type |-> request.llm_type,
        response_text |-> <<>>,
        confidence_score |-> 0, processing_time |-> b.dur,
        success |-> FALSE, error |-> "exception"]

\* str(e) of the TimeoutError that Future.result raises: it is raised with
\* no arguments, so its text is the empty string
TimeoutErrorText == ""

\* error_response of _execute_parallel_mcp's except clause
ErrorResponse(req) ==
  [llm_id |-> req.llm_id, llm_type |-> req.llm_type,
   response_text |-> <<>>,
   confidence_score |-> 0, processing_time |-> 0,
   success |-> FALSE, error |-> TimeoutErrorText]

RECURSIVE SumTimes(_)
SumTimes(rs) ==
  IF rs = <<>> THEN 0 ELSE Head(rs).processing_time + SumTimes(Tail(rs))

\* the elapsed time of the first result taken for the largest
FirstTime(rs) == IF rs = <<>> THEN 0 ELSE Head(rs).processing_time

RECURSIVE MaxTime(_)
MaxTime(rs) ==
  IF rs = <<>> THEN 0
  ELSE LET m == MaxTime(Tail(rs))
       IN  IF Head(rs).processing_time >= m THEN Head(rs).processing_time ELSE m

\* the failed results kept among the candidates for the best
Successful_WithFailed(rs) == rs

Successful(rs) == SelectSeq(rs, LAMBDA r : r.success)

\* the first result taken for the best one
FirstOf(rs) == IF rs = <<>> THEN <<>> ELSE << rs[1] >>

\* the last of the results of highest confidence taken for the first
LastMaxByConfidence(rs) ==
  IF rs = <<>> THEN <<>>
  ELSE LET i == CHOOSE k \in 1 .. Len(rs) :
                  /\ \A j \in 1 .. Len(rs) :
                       rs[j].confidence_score <= rs[k].confidence_score
                  /\ \A j \in (k + 1) .. Len(rs) :
                       rs[j].confidence_score < rs[k].confidence_score
       IN  << rs[i] >>

\* max(rs, key=confidence_score, default=None): the first of the results of
\* highest confidence, as <<r>>, or <<>> for None
MaxByConfidence(rs) ==
  IF rs = <<>> THEN <<>>
  ELSE LET i == CHOOSE k \in 1 .. Len(rs) :
                  /\ \A j \in 1 .. Len(rs) :
                       rs[j].confidence_score <= rs[k].confidence_score
                  /\ \A j \in 1 .. (k - 1) :
                       rs[j].confidence_score < rs[k].confidence_score
       IN  << rs[i] >>

UnableText == <<"Unable to generate result from available LLMs">>

_synthesize_parallel_results(interface_results, knowledge_results) ==
  LET all == interface_results \o knowledge_results
      sequential_time == SumTimes(all)
      parallel_time == MaxTime(all)
      speedup == IF parallel_time > 0
                 THEN <<sequential_time, parallel_time>> ELSE <<1, 1>>
      best_interface == MaxByConfidence(Successful(interface_results))
      best_knowledge == MaxByConfidence(Successful(knowledge_results))
  IN  IF best_interface # <<>> /\ best_knowledge # <<>>
      THEN [synthesized |-> best_interface[1].response_text
                            \o <<"\n\n# Knowledge Context (from",
                                  best_knowledge[1].llm_id, "):\n#">>
                            \o best_knowledge[1].response_text
                            \o <<"\n">>,
            confidence |-> best_interface[1].confidence_score * 7
                           + best_knowledge[1].confidence_score * 3,
            speedup |-> speedup]
      ELSE IF best_interface # <<>>
      THEN [synthesized |-> best_interface[1].response_text,
            confidence |-> best_interface[1].confidence_score * 8,
            speedup |-> speedup]
      ELSE IF best_knowledge # <<>>
      THEN [synthesized |-> best_knowledge[1].response_text,
            confidence |-> best_knowledge[1].confidence_score * 6,
            speedup |-> speedup]
      ELSE [synthesized |-> UnableText, confidence |-> 0, speedup |-> speedup]

\* ParallelExecutionResult(...) of the early return of execute_parallel
NoLLMsResult(strategy) ==
  [success |-> FALSE, strategy_used |-> strategy, llms_executed |-> 0,
   interface_llm_results |-> <<>>, knowledge_llm_results |-> <<>>,
   synthesized_result |-> <<>>, confidence_score |-> 0,
   parallel_speedup |-> <<0, 1>>, error |-> "No LLMs available"]

\* llms_executed counting the successful results only
ParallelResult_CountsSuccesses(interface_results, knowledge_results) ==
  LET s == _synthesize_parallel_results(interface_results, knowledge_results)
  IN  [success |-> TRUE, strategy_used |-> "parallel_mcp",
       llms_executed |-> Len(Successful(interface_results))
                         + Len(Successful(knowledge_results)),
       interface_llm_results |-> interface_results,
       knowledge_llm_results |-> knowledge_results,
       synthesized_result |-> s.synthesized, confidence_score |-> s.confidence,
       parallel_speedup |-> s.speedup, error |-> None]

\* ParallelExecutionResult(...) at the end of _execute_parallel_mcp
ParallelResult(interface_results, knowledge_results) ==
  LET s == _synthesize_parallel_results(interface_results, knowledge_results)
  IN  [success |-> TRUE, strategy_used |-> "parallel_mcp",
       llms_executed |-> Len(interface_results) + Len(knowledge_results),
       interface_llm_results |-> interface_results,
       knowledge_llm_results |-> knowledge_results,
       synthesized_result |-> s.synthesized, confidence_score |-> s.confidence,
       parallel_speedup |-> s.speedup, error |-> None]

\* ParallelExecutionResult(...) of _execute_single_type when llms is empty
SingleTypeEmptyResult(llm_type) ==
  [success |-> FALSE,
   strategy_used |-> IF llm_type = "interface" THEN "interface_only" ELSE "knowledge_only",
   llms_executed |-> 0,
   interface_llm_results |-> <<>>, knowledge_llm_results |-> <<>>,
   synthesized_result |-> <<>>, confidence_score |-> 0,
   parallel_speedup |-> <<1, 1>>,
   error |-> IF llm_type = "interface" THEN "No interface LLMs available"
                                        ELSE "No knowledge LLMs available"]

\* the single result weighted as the synthesizer weights a lone class
SingleTypeResult_Weighted(response, llm_type) ==
  [success |-> response.success,
   strategy_used |-> IF llm_type = "interface" THEN "interface_only" ELSE "knowledge_only",
   llms_executed |-> 1,
   interface_llm_results |-> IF llm_type = "interface" THEN <<response>> ELSE <<>>,
   knowledge_llm_results |-> IF llm_type = "knowledge" THEN <<response>> ELSE <<>>,
   synthesized_result |-> response.response_text,
   confidence_score |-> response.confidence_score
                        * (IF llm_type = "interface" THEN 8 ELSE 6),
   parallel_speedup |-> <<1, 1>>,
   error |-> IF ~response.success THEN response.error ELSE None]

\* ParallelExecutionResult(...) at the end of _execute_single_type
SingleTypeResult(response, llm_type) ==
  [success |-> response.success,
   strategy_used |-> IF llm_type = "interface" THEN "interface_only" ELSE "knowledge_only",
   llms_executed |-> 1,
   interface_llm_results |-> IF llm_type = "interface" THEN <<response>> ELSE <<>>,
   knowledge_llm_results |-> IF llm_type = "knowledge" THEN <<response>> ELSE <<>>,
   synthesized_result |-> response.response_text,
   confidence_score |-> response.confidence_score * 10,
   parallel_speedup |-> <<1, 1>>,
   error |-> IF ~response.success THEN response.error ELSE None]

\* the speedup the synthesizer computed reported instead of the constant
SequentialResult_Measured(interface_results, knowledge_results) ==
  LET s == _synthesize_parallel_results(interface_results, knowledge_results)
  IN  [success |-> TRUE, strategy_used |-> "sequential",
       llms_executed |-> Len(interface_results) + Len(knowledge_results),
       interface_llm_results |-> interface_results,
       knowledge_llm_results |-> knowledge_results,
       synthesized_result |-> s.synthesized, confidence_score |-> s.confidence,
       parallel_speedup |-> s.speedup, error |-> None]

\* ParallelExecutionResult(...) at the end of _execute_sequential
SequentialResult(interface_results, knowledge_results) ==
  LET s == _synthesize_parallel_results(interface_results, knowledge_results)
  IN  [success |-> TRUE, strategy_used |-> "sequential",
       llms_executed |-> Len(interface_results) + Len(knowledge_results),
       interface_llm_results |-> interface_results,
       knowledge_llm_results |-> knowledge_results,
       synthesized_result |-> s.synthesized, confidence_score |-> s.confidence,
       parallel_speedup |-> <<1, 2>>, error |-> None]

\* the vote and the ParallelExecutionResult(...) of _execute_consensus
ConsensusResult(results) ==
  LET best == MaxByConfidence(results)
  IN  [success |-> best # <<>>, strategy_used |-> "consensus",
       llms_executed |-> Len(results),
       interface_llm_results |-> SelectSeq(results, LAMBDA r : r.llm_type = "interface"),
       knowledge_llm_results |-> SelectSeq(results, LAMBDA r : r.llm_type = "knowledge"),
       synthesized_result |-> IF best # <<>> THEN best[1].response_text ELSE <<>>,
       confidence_score |-> IF best # <<>> THEN best[1].confidence_score * 10 ELSE 0,
       parallel_speedup |-> <<Len(results) * 8, 10>>,
       error |-> None]

\* ---------------------------------------------------------------- state

VARIABLES
  pc,                 \* where each caller's thread is inside execute_parallel
  args,               \* the arguments of its current (or last) execute call
  nexec,              \* how many execute calls it has made
  calls,              \* the model calls of that execution, in request order
  idx,                \* the position of its submit / collect / chain loop
  waited,             \* seconds spent in the current future.result(timeout=30)
  interface_results,  \* local list of _execute_parallel_mcp
  knowledge_results,  \* local list of _execute_parallel_mcp
  all_results,        \* local list of _execute_consensus
  result,             \* the ParallelExecutionResult, <<r>> once built
  loaded,             \* the counter value its statistics[...] += 1 has read
  current_module,     \* self.current_module
  current_context,    \* self.current_context
  queue,              \* the work queue of self.executor
  zombies,            \* running pool tasks of earlier executions: left -> count
  statistics,         \* self.statistics
  execution_history   \* self.execution_history

callerVars == <<pc, args, nexec, idx, waited, interface_results,
                knowledge_results, all_results, result, loaded>>
sharedVars == <<current_module, current_context, statistics, execution_history>>
poolVars == <<calls, queue, zombies>>
vars == <<callerVars, sharedVars, poolVars>>

\* A model call of an execution: its request, where it is (new: prepared;
\* queued: submitted to the pool; running: on a pool worker; inline: on the
\* caller's own thread), what its body does (kind), the seconds its body
\* still runs (Never: for ever), the seconds since it was submitted or
\* called (counted until the execution has its outcome), the seconds it
\* spent in the pool's queue, the response its body returns, and what the
\* execution made of it (pending, returned, timeout).
NewCall(req) ==
  [req |-> req, st |-> "new", kind |-> "none", left |-> 0, age |-> 0,
   delay |-> 0, resp |-> <<>>, verdict |-> "pending"]

Finished(c) == c.st \in {"running", "inline"} /\ c.left = 0

\* _execute_single_llm starts for call c, on a pool worker (running) or on
\* the caller's thread (inline): it reads module and context from the
\* executor, and its body will behave as b. A body that never returns has
\* no response.
RunBody(c, where, b) ==
  [c EXCEPT !.st = where, !.kind = b.kind, !.left = b.dur, !.delay = c.age,
            !.resp = IF b.kind = "hang" THEN <<>>
                     ELSE << SingleLLMResponse(c.req, current_module,
                                               current_context, b) >>]

OnWorker(c) == c.st = "running" /\ c.left # 0

RECURSIVE SeqSum(_)
SeqSum(s) == IF s = <<>> THEN 0 ELSE Head(s) + SeqSum(Tail(s))

ZombieCount == Len(zombies)

\* pool workers that are running a task
Busy ==
  LET Count(e) == SeqSum([i \in 1 .. Len(calls[e]) |->
                            IF OnWorker(calls[e][i]) THEN 1 ELSE 0])
      RECURSIVE Total(_)
      Total(S) == IF S = {} THEN 0
                  ELSE LET e == CHOOSE x \in S : TRUE
                       IN  Count(e) + Total(S \ {e})
  IN  Total(Callers) + ZombieCount

NoArgs ==
  [strategy |-> "parallel", num_interface_llms |-> DefaultInterface,
   num_knowledge_llms |-> DefaultKnowledge,
   module |-> "code_generation", context |-> "{}"]

Init ==
  /\ pc = [e \in Callers |-> "idle"]
  /\ args = [e \in Callers |-> NoArgs]
  /\ nexec = [e \in Callers |-> 0]
  /\ calls = [e \in Callers |-> <<>>]
  /\ idx = [e \in Callers |-> 1]
  /\ waited = [e \in Callers |-> 0]
  /\ interface_results = [e \in Callers |-> <<>>]
  /\ knowledge_results = [e \in Callers |-> <<>>]
  /\ all_results = [e \in Callers |-> <<>>]
  /\ result = [e \in Callers |-> <<>>]
  /\ loaded = [e \in Callers |-> 0]
  /\ current_module = "code_generation"
  /\ current_context = "{}"
  /\ queue = <<>>
  /\ zombies = <<>>
  /\ statistics = [total_executions |-> 0, parallel_executions |-> 0,
                   single_executions |-> 0]
  /\ execution_history = <<>>

\* -------------------------------------------------------------- execute

\* llm_requests of _execute_parallel_mcp: the interface requests, then the
\* knowledge requests, each with its class's prompt template
ParallelRequests(interface_llms, knowledge_llms) ==
  [i \in 1 .. Len(interface_llms) |->
     LLMRequest(interface_llms[i], "interface", _format_interface_prompt(RawPrompt))]
  \o
  [i \in 1 .. Len(knowledge_llms) |->
     LLMRequest(knowledge_llms[i], "knowledge", _format_knowledge_prompt(RawPrompt))]

\* requests of _execute_consensus: llms[:3], each with its catalog class
ConsensusRequests(llms) ==
  LET chosen == Slice(llms, ConsensusMax)
  IN  [i \in 1 .. Len(chosen) |->
         LLMRequest(chosen[i], chosen[i].model_type, RawPrompt)]

\* knowledge_prompt of _execute_sequential
KnowledgePrompt(interface_result) ==
  RawPrompt \o <<"Context from interface:">>
  \o (IF interface_result # <<>> THEN interface_result[1].response_text ELSE <<>>)

SelectedInterface(a) == Slice(get_interface_llms, a.num_interface_llms)

\* the knowledge models cut at the count asked of the interface models
SelectedKnowledge_ByInterfaceCount(a) ==
  Slice(get_knowledge_llms, a.num_interface_llms)

SelectedKnowledge(a) == Slice(get_knowledge_llms, a.num_knowledge_llms)

\* the early return taken as soon as one of the two selections is empty
NoLLMs_Either(interface_llms, knowledge_llms) ==
  Len(interface_llms) = 0 \/ Len(knowledge_llms) = 0

\* if len(interface_llms) == 0 and len(knowledge_llms) == 0
NoLLMs(interface_llms, knowledge_llms) ==
  Len(interface_llms) = 0 /\ Len(knowledge_llms) = 0

\* The pool tasks of the caller's previous execution that still hold a
\* worker when its next execution replaces them.
Abandoned(cs) ==
  LET running == SelectSeq(cs, OnWorker)
  IN  [i \in 1 .. Len(running) |-> running[i].left]

\* the arguments of an execute call
Arguments(strategy, ni, nk, job) ==
  [strategy |-> strategy, num_interface_llms |-> ni, num_knowledge_llms |-> nk,
   module |-> job.module, context |-> job.context]

\* execute_parallel, called by thread e with arguments a, up to the
\* strategy's first blocking point: stores module and context on the
\* executor, selects the models, returns early when there are none, and
\* otherwise enters the strategy.
ExecuteWith(e, a) ==
  /\ pc[e] = "idle"
  /\ LET strategy == a.strategy
         interface_llms == SelectedInterface(a)
         knowledge_llms == SelectedKnowledge(a)
         single == IF strategy = "interface_only"
                   THEN interface_llms ELSE knowledge_llms
         single_type == IF strategy = "interface_only"
                        THEN "interface" ELSE "knowledge"
     IN    /\ args' = [args EXCEPT ![e] = a]
           /\ current_module' = a.module
           /\ current_context' = a.context
           /\ nexec' = [nexec EXCEPT ![e] = @ + 1]
           /\ zombies' = zombies \o Abandoned(calls[e])
           /\ idx' = [idx EXCEPT ![e] = 1]
           /\ waited' = [waited EXCEPT ![e] = 0]
           /\ interface_results' = [interface_results EXCEPT ![e] = <<>>]
           /\ knowledge_results' = [knowledge_results EXCEPT ![e] = <<>>]
           /\ all_results' = [all_results EXCEPT ![e] = <<>>]
           /\ IF NoLLMs(interface_llms, knowledge_llms)
              THEN /\ result' = [result EXCEPT ![e] = << NoLLMsResult(strategy) >>]
                   /\ calls' = [calls EXCEPT ![e] = <<>>]
                   /\ pc' = [pc EXCEPT ![e] = "idle"]
              ELSE IF strategy = "parallel"
              THEN /\ result' = [result EXCEPT ![e] = <<>>]
                   /\ calls' = [calls EXCEPT ![e] =
                        LET rq == ParallelRequests(interface_llms, knowledge_llms)
                        IN  [i \in 1 .. Len(rq) |-> NewCall(rq[i])]]
                   /\ pc' = [pc EXCEPT ![e] = "submit"]
              ELSE IF strategy = "consensus"
              THEN /\ result' = [result EXCEPT ![e] = <<>>]
                   /\ calls' = [calls EXCEPT ![e] =
                        LET rq == ConsensusRequests(interface_llms \o knowledge_llms)
                        IN  [i \in 1 .. Len(rq) |-> NewCall(rq[i])]]
                   /\ pc' = [pc EXCEPT ![e] = "submit"]
              ELSE IF strategy = "sequential"
              THEN /\ result' = [result EXCEPT ![e] = <<>>]
                   /\ calls' = [calls EXCEPT ![e] =
                        IF Len(interface_llms) > 0
                        THEN << NewCall(LLMRequest(interface_llms[1], "interface",
                                                   RawPrompt)) >>
                        ELSE << NewCall(LLMRequest(knowledge_llms[1], "knowledge",
                                                   KnowledgePrompt(<<>>))) >>]
                   /\ pc' = [pc EXCEPT ![e] = "direct"]
              ELSE IF Len(single) = 0
              THEN /\ result' = [result EXCEPT ![e] =
                                   << SingleTypeEmptyResult(single_type) >>]
                   /\ calls' = [calls EXCEPT ![e] = <<>>]
                   /\ pc' = [pc EXCEPT ![e] = "update"]
              ELSE /\ result' = [result EXCEPT ![e] = <<>>]
                   /\ calls' = [calls EXCEPT ![e] =
                        << NewCall(LLMRequest(single[1], single_type, RawPrompt)) >>]
                   /\ pc' = [pc EXCEPT ![e] = "direct"]
  /\ UNCHANGED <<loaded, queue, statistics, execution_history>>

\* an execute call with any strategy, counts and job
Execute(e) ==
  /\ nexec[e] < MaxExecutions
  /\ \E strategy \in Strategies, ni \in NumInterfaceChoices,
        nk \in NumKnowledgeChoices, job \in Jobs :
       ExecuteWith(e, Arguments(strategy, ni, nk, job))

\* ---------------------------------------------- calls on the own thread

\* _execute_single_llm called by _execute_single_type or _execute_sequential
\* on the caller's thread: it reads module and context from the executor and
\* its body starts.
DirectStartOf(e, bodies) ==
  /\ pc[e] = "direct"
  /\ calls[e][idx[e]].st = "new"
  /\ \E b \in bodies :
       calls' = [calls EXCEPT ![e][idx[e]] = RunBody(calls[e][idx[e]], "inline", b)]
  /\ UNCHANGED <<callerVars, sharedVars, queue, zombies>>

DirectStart(e) == DirectStartOf(e, Behaviours)

\* The direct call returns its LLMResponse; the strategy goes on with the
\* chained knowledge call or builds its result.
DirectReturn(e) ==
  /\ pc[e] = "direct"
  /\ calls[e][idx[e]].st = "inline"
  /\ calls[e][idx[e]].left = 0
  /\ LET c == calls[e][idx[e]]
         response == c.resp[1]
         returned == [calls[e] EXCEPT ![idx[e]].verdict = "returned"]
         knowledge_llms == SelectedKnowledge(args[e])
     IN  IF args[e].strategy = "sequential"
         THEN IF c.req.llm_type = "interface" /\ Len(knowledge_llms) > 0
              THEN /\ calls' = [calls EXCEPT ![e] =
                        Append(returned,
                               NewCall(LLMRequest(knowledge_llms[1], "knowledge",
                                                  KnowledgePrompt(<<response>>))))]
                   /\ idx' = [idx EXCEPT ![e] = @ + 1]
                   /\ UNCHANGED <<pc, result>>
              ELSE /\ calls' = [calls EXCEPT ![e] = returned]
                   /\ result' = [result EXCEPT ![e] =
                        LET rs == [i \in 1 .. Len(returned) |-> returned[i].resp[1]]
                        IN  << SequentialResult(
                                 SelectSeq(rs, LAMBDA r : r.llm_type = "interface"),
                                 SelectSeq(rs, LAMBDA r : r.llm_type = "knowledge")) >>]
                   /\ pc' = [pc EXCEPT ![e] = "update"]
                   /\ UNCHANGED idx
         ELSE /\ calls' = [calls EXCEPT ![e] = returned]
              /\ result' = [result EXCEPT ![e] =
                              << SingleTypeResult(response, c.req.llm_type) >>]
              /\ pc' = [pc EXCEPT ![e] = "update"]
              /\ UNCHANGED idx
  /\ UNCHANGED <<args, nexec, waited, interface_results, knowledge_results,
                 all_results, loaded, sharedVars, queue, zombies>>

\* ------------------------------------------------------------- the pool

Pooled(e) == args[e].strategy \in {"parallel", "consensus"}

\* a submission loop that awaits each future right after submitting it
Submit_ThenAwait(e) ==
  /\ pc[e] = "submit"
  /\ calls' = [calls EXCEPT ![e][idx[e]].st = "queued"]
  /\ queue' = Append(queue, [owner |-> e, gen |-> nexec[e], i |-> idx[e]])
  /\ pc' = [pc EXCEPT ![e] = "collect"]
  /\ UNCHANGED <<args, nexec, idx, waited, interface_results, knowledge_results,
                 all_results, result, loaded, sharedVars, zombies>>

\* One executor.submit of the submission loop. After the last one the
\* caller enters its first future.result(timeout=30).
Submit(e) ==
  /\ pc[e] = "submit"
  /\ calls' = [calls EXCEPT ![e][idx[e]].st = "queued"]
  /\ queue' = Append(queue, [owner |-> e, gen |-> nexec[e], i |-> idx[e]])
  /\ IF idx[e] = Len(calls[e])
     THEN /\ pc' = [pc EXCEPT ![e] = "collect"]
          /\ idx' = [idx EXCEPT ![e] = 1]
     ELSE /\ idx' = [idx EXCEPT ![e] = @ + 1]
          /\ UNCHANGED pc
  /\ UNCHANGED <<args, nexec, waited, interface_results, knowledge_results,
                 all_results, result, loaded, sharedVars, zombies>>

\* A free pool worker takes the oldest queued task and starts
\* _execute_single_llm: it reads module and context from the executor and
\* the body starts. A task whose execution is over runs all the same.
StartTaskOf(bodies) ==
  /\ queue # <<>>
  /\ Busy < max_workers
  /\ LET h == Head(queue)
     IN  \E b \in bodies :
           IF h.gen = nexec[h.owner]
           THEN /\ calls' = [calls EXCEPT ![h.owner][h.i] =
                                RunBody(calls[h.owner][h.i], "running", b)]
                /\ UNCHANGED zombies
           ELSE /\ zombies' = Append(zombies, b.dur)
                /\ UNCHANGED calls
  /\ queue' = Tail(queue)
  /\ UNCHANGED <<callerVars, sharedVars>>

StartTask == StartTaskOf(Behaviours)

\* the try branch of _execute_parallel_mcp's collection loop
OnResultParallel(rs, response) ==
  IF response.llm_type = "interface"
  THEN [rs EXCEPT !.interface = Append(@, response)]
  ELSE [rs EXCEPT !.knowledge = Append(@, response)]

\* the except branch swallowing the timeout, as _execute_consensus does
OnTimeoutParallel_Dropped(rs, req) == rs

\* the except branch of _execute_parallel_mcp's collection loop
OnTimeoutParallel(rs, req) ==
  IF req.llm_type = "interface"
  THEN [rs EXCEPT !.interface = Append(@, ErrorResponse(req))]
  ELSE [rs EXCEPT !.knowledge = Append(@, ErrorResponse(req))]

\* the try branch of _execute_consensus's collection loop
OnResultConsensus(rs, response) == Append(rs, response)

\* the except branch of _execute_consensus's collection loop: pass
OnTimeoutConsensus(rs, req) == rs

\* a collection loop that takes the results as the tasks complete
\* (as_completed), whatever their place in the submission order
Collect_AsCompleted(e) ==
  /\ pc[e] = "collect"
  /\ idx[e] <= Len(calls[e])
  /\ LET open == { i \in 1 .. Len(calls[e]) : calls[e][i].verdict = "pending" }
         lists == [interface |-> interface_results[e],
                   knowledge |-> knowledge_results[e]]
     IN  \E i \in open :
           LET c == calls[e][i]
           IN  /\ Finished(c) \/ waited[e] = Timeout
               /\ calls' = [calls EXCEPT ![e][i].verdict =
                              IF Finished(c) THEN "returned" ELSE "timeout"]
               /\ IF args[e].strategy = "parallel"
                  THEN LET new == IF Finished(c)
                                  THEN OnResultParallel(lists, c.resp[1])
                                  ELSE OnTimeoutParallel(lists, c.req)
                       IN  /\ interface_results' = [interface_results EXCEPT ![e] = new.interface]
                           /\ knowledge_results' = [knowledge_results EXCEPT ![e] = new.knowledge]
                           /\ UNCHANGED all_results
                  ELSE /\ all_results' = [all_results EXCEPT ![e] =
                            IF Finished(c) THEN OnResultConsensus(@, c.resp[1])
                                           ELSE OnTimeoutConsensus(@, c.req)]
                       /\ UNCHANGED <<interface_results, knowledge_results>>
  /\ idx' = [idx EXCEPT ![e] = @ + 1]
  /\ waited' = [waited EXCEPT ![e] = 0]
  /\ UNCHANGED <<pc, args, nexec, result, loaded, sharedVars, queue, zombies>>

\* future.result(timeout=30) of the next future, in submission order,
\* returns the response of a finished task, or raises once the wait has
\* lasted 30 seconds.
Collect(e) ==
  /\ pc[e] = "collect"
  /\ idx[e] <= Len(calls[e])
  /\ LET c == calls[e][idx[e]]
         lists == [interface |-> interface_results[e],
                   knowledge |-> knowledge_results[e]]
     IN  /\ Finished(c) \/ waited[e] = Timeout
         /\ calls' = [calls EXCEPT ![e][idx[e]].verdict =
                        IF Finished(c) THEN "returned" ELSE "timeout"]
         /\ IF args[e].strategy = "parallel"
            THEN LET new == IF Finished(c)
                            THEN OnResultParallel(lists, c.resp[1])
                            ELSE OnTimeoutParallel(lists, c.req)
                 IN  /\ interface_results' = [interface_results EXCEPT ![e] = new.interface]
                     /\ knowledge_results' = [knowledge_results EXCEPT ![e] = new.knowledge]
                     /\ UNCHANGED all_results
            ELSE /\ all_results' = [all_results EXCEPT ![e] =
                      IF Finished(c) THEN OnResultConsensus(@, c.resp[1])
                                     ELSE OnTimeoutConsensus(@, c.req)]
                 /\ UNCHANGED <<interface_results, knowledge_results>>
  /\ idx' = [idx EXCEPT ![e] = @ + 1]
  /\ waited' = [waited EXCEPT ![e] = 0]
  /\ UNCHANGED <<pc, args, nexec, result, loaded, sharedVars, queue, zombies>>

\* the result built from what every task has returned by now, the tasks
\* recorded as timed out included
Build_WithLateResults(e) ==
  /\ pc[e] = "collect"
  /\ idx[e] > Len(calls[e])
  /\ result' = [result EXCEPT ![e] =
       LET done == SelectSeq(calls[e], Finished)
           rs == [i \in 1 .. Len(done) |-> done[i].resp[1]]
       IN  IF args[e].strategy = "parallel"
           THEN << ParallelResult(
                     SelectSeq(rs, LAMBDA r : r.llm_type = "interface"),
                     SelectSeq(rs, LAMBDA r : r.llm_type = "knowledge")) >>
           ELSE << ConsensusResult(rs) >>]
  /\ pc' = [pc EXCEPT ![e] = "update"]
  /\ UNCHANGED <<args, nexec, idx, waited, interface_results, knowledge_results,
                 all_results, loaded, sharedVars, poolVars>>

\* After the collection loop: synthesis (parallel) or the vote (consensus)
\* and the ParallelExecutionResult.
Build(e) ==
  /\ pc[e] = "collect"
  /\ idx[e] > Len(calls[e])
  /\ result' = [result EXCEPT ![e] =
       IF args[e].strategy = "parallel"
       THEN << ParallelResult(interface_results[e], knowledge_results[e]) >>
       ELSE << ConsensusResult(all_results[e]) >>]
  /\ pc' = [pc EXCEPT ![e] = "update"]
  /\ UNCHANGED <<args, nexec, idx, waited, interface_results, knowledge_results,
                 all_results, loaded, sharedVars, poolVars>>

\* ----------------------------------------------------------- the ledger

\* _update_statistics: the three counters
_update_statistics(st, r) ==
  [st EXCEPT !.total_executions = @ + 1,
             !.parallel_executions = IF r.llms_executed > 1 THEN @ + 1 ELSE @,
             !.single_executions = IF r.llms_executed > 1 THEN @ ELSE @ + 1]

\* the summary execute_parallel appends to execution_history
Summary(a, r) ==
  [strategy |-> a.strategy, llms_used |-> r.llms_executed]

UpdateStatistics(e) ==
  /\ pc[e] = "update"
  /\ statistics' = _update_statistics(statistics, result[e][1])
  /\ pc' = [pc EXCEPT ![e] = "append"]
  /\ UNCHANGED <<args, nexec, idx, waited, interface_results, knowledge_results,
                 all_results, result, loaded, current_module, current_context,
                 execution_history, poolVars>>

\* The same update as the steps another thread can come between (nothing
\* locks self.statistics): each statistics[...] += 1 reads the counter and
\* then stores the value it read plus one.
Counter(r) ==
  IF r.llms_executed > 1 THEN "parallel_executions" ELSE "single_executions"

LoadTotal(e) ==
  /\ pc[e] = "update"
  /\ loaded' = [loaded EXCEPT ![e] = statistics.total_executions]
  /\ pc' = [pc EXCEPT ![e] = "store_total"]
  /\ UNCHANGED <<args, nexec, idx, waited, interface_results, knowledge_results,
                 all_results, result, sharedVars, poolVars>>

StoreTotal(e) ==
  /\ pc[e] = "store_total"
  /\ statistics' = [statistics EXCEPT !.total_executions = loaded[e] + 1]
  /\ pc' = [pc EXCEPT ![e] = "load_kind"]
  /\ UNCHANGED <<args, nexec, idx, waited, interface_results, knowledge_results,
                 all_results, result, loaded, current_module, current_context,
                 execution_history, poolVars>>

LoadKind(e) ==
  /\ pc[e] = "load_kind"
  /\ loaded' = [loaded EXCEPT ![e] = statistics[Counter(result[e][1])]]
  /\ pc' = [pc EXCEPT ![e] = "store_kind"]
  /\ UNCHANGED <<args, nexec, idx, waited, interface_results, knowledge_results,
                 all_results, result, sharedVars, poolVars>>

StoreKind(e) ==
  /\ pc[e] = "store_kind"
  /\ statistics' = [statistics EXCEPT ![Counter(result[e][1])] = loaded[e] + 1]
  /\ pc' = [pc EXCEPT ![e] = "append"]
  /\ UNCHANGED <<args, nexec, idx, waited, interface_results, knowledge_results,
                 all_results, result, loaded, current_module, current_context,
                 execution_history, poolVars>>

\* execution_history.append(...) and the return of execute_parallel
AppendHistory(e) ==
  /\ pc[e] = "append"
  /\ execution_history' = Append(execution_history, Summary(args[e], result[e][1]))
  /\ pc' = [pc EXCEPT ![e] = "idle"]
  /\ UNCHANGED <<args, nexec, idx, waited, interface_results, knowledge_results,
                 all_results, result, loaded, current_module, current_context,
                 statistics, poolVars>>

Max(a, b) == IF a >= b THEN a ELSE b

\* s[:n] taken for s[-n:]: the n oldest entries
FirstN(s, n) == SubSeq(s, 1, Min(n, Len(s)))

\* s[-n:] for n > 0: the slice starts at index max(len(s) - n, 0)
LastN(s, n) == SubSeq(s, Max(Len(s) - n, 0) + 1, Len(s))

\* The dictionary get_statistics returns to a thread that calls it now: the
\* counters, the length of the history and its last ten entries.
get_statistics ==
  [total_executions |-> statistics.total_executions,
   parallel_executions |-> statistics.parallel_executions,
   single_executions |-> statistics.single_executions,
   history_count |-> Len(execution_history),
   recent_executions |-> LastN(execution_history, HistoryWindow)]

\* ----------------------------------------------------------------- time

\* a caller that can take a step without time passing
Ready(e) ==
  \/ pc[e] \in {"submit", "update", "store_total", "load_kind", "store_kind",
               "append"}
  \/ /\ pc[e] = "collect"
     /\ \/ idx[e] > Len(calls[e])
        \/ Finished(calls[e][idx[e]])
        \/ waited[e] = Timeout
  \/ /\ pc[e] = "direct"
     /\ \/ calls[e][idx[e]].st = "new"
        \/ Finished(calls[e][idx[e]])

\* the seconds until something next happens: a running body ends or a
\* future.result wait reaches its timeout
Pending ==
  UNION { { calls[e][i].left : i \in { j \in 1 .. Len(calls[e]) :
                                        /\ calls[e][j].st \in {"running", "inline"}
                                        /\ calls[e][j].left > 0 } } : e \in Callers }
  \cup { zombies[i] : i \in { j \in 1 .. Len(zombies) : zombies[j] > 0 } }
  \cup { Timeout - waited[e] : e \in { x \in Callers : pc[x] = "collect" } }

Elapse(c, d) ==
  [c EXCEPT !.left = IF c.st \in {"running", "inline"} /\ @ > 0 THEN @ - d ELSE @,
            !.age = IF c.st # "new" /\ c.verdict = "pending" THEN @ + d ELSE @]

\* Time passes, up to the next moment at which something happens, while no
\* thread can take a step.
Tick ==
  /\ \A e \in Callers : ~Ready(e)
  /\ ~(queue # <<>> /\ Busy < max_workers)
  /\ Pending # {}
  /\ LET d == CHOOSE x \in Pending : \A y \in Pending : x <= y
         left == [i \in 1 .. Len(zombies) |->
                    IF zombies[i] > 0 THEN zombies[i] - d ELSE zombies[i]]
     IN  /\ calls' = [e \in Callers |->
                        [i \in 1 .. Len(calls[e]) |-> Elapse(calls[e][i], d)]]
         /\ zombies' = SelectSeq(left, LAMBDA z : z # 0)
         /\ waited' = [e \in Callers |->
                         IF pc[e] = "collect" THEN waited[e] + d ELSE waited[e]]
  /\ UNCHANGED <<pc, args, nexec, idx, interface_results, knowledge_results,
                 all_results, result, loaded, sharedVars, queue>>

\* -------------------------------------------------------- specification

Step(e) ==
  \/ Execute(e)
  \/ DirectStart(e)
  \/ DirectReturn(e)
  \/ Submit(e)
  \/ Collect(e)
  \/ Build(e)
  \/ UpdateStatistics(e)
  \/ AppendHistory(e)

\* One thread, c1, calls execute_parallel on the executor.
Next ==
  \/ Step("c1")
  \/ StartTask
  \/ Tick

Spec == Init /\ [][Next]_vars

\* The steps a thread takes once it is inside execute_parallel. Threads are
\* scheduled fairly, pool workers pick up queued work, and time passes;
\* whether and when a caller starts an execution is up to the caller.
Progress(e) ==
  \/ DirectStart(e)
  \/ DirectReturn(e)
  \/ Submit(e)
  \/ Collect(e)
  \/ Build(e)
  \/ UpdateStatistics(e)
  \/ AppendHistory(e)

FairSpec ==
  /\ Spec
  /\ WF_vars(Progress("c1"))
  /\ WF_vars(StartTask)
  /\ WF_vars(Tick)

\* ------------------------------------------------- concurrent callers

\* Two threads call execute_parallel on the shared executor at the same
\* time: c1 asks for every interface model and a knowledge model in
\* parallel, c2 for a single interface model, each with its own module and
\* context. Model calls end normally, soon or late.
ConcArguments(e) ==
  IF e = "c1"
  THEN { Arguments("parallel", Len(get_interface_llms), DefaultKnowledge,
                   [module |-> "code_generation", context |-> "ctx_code"]) }
  ELSE { Arguments("interface_only", DefaultInterface, DefaultKnowledge,
                   [module |-> "documents", context |-> "ctx_docs"]) }

ConcBehaviours == { b \in Behaviours : b.kind = "ok" /\ b.conf = 95 }

ConcExecute(e) ==
  /\ nexec[e] < MaxExecutions
  /\ \E a \in ConcArguments(e) : ExecuteWith(e, a)

ConcDirectStart(e) == DirectStartOf(e, ConcBehaviours)

ConcStartTask == StartTaskOf(ConcBehaviours)

ConcStep(e) ==
  \/ ConcExecute(e)
  \/ ConcDirectStart(e)
  \/ DirectReturn(e)
  \/ Submit(e)
  \/ Collect(e)
  \/ Build(e)
  \/ LoadTotal(e)
  \/ StoreTotal(e)
  \/ LoadKind(e)
  \/ StoreKind(e)
  \/ AppendHistory(e)

ConcNext ==
  \/ \E e \in Callers : ConcStep(e)
  \/ ConcStartTask
  \/ Tick

ConcSpec == Init /\ [][ConcNext]_vars

\* ----------------------------------------------------------- a long run

\* One thread makes many execute calls, one after the other, each of the
\* interface_only strategy with no or one interface model selected: every
\* one of them is recorded, with llms_used 0 or 1 in its summary.
LedgerArguments ==
  { Arguments("interface_only", ni, DefaultKnowledge,
              [module |-> "code_generation", context |-> "ctx_code"]) :
      ni \in {0, 1} }

LedgerExecute(e) ==
  /\ nexec[e] < MaxRecorded
  /\ \E a \in LedgerArguments : ExecuteWith(e, a)

LedgerNext ==
  \/ LedgerExecute("c1")
  \/ DirectStart("c1")
  \/ DirectReturn("c1")
  \/ UpdateStatistics("c1")
  \/ AppendHistory("c1")
  \/ Tick

LedgerSpec == Init /\ [][LedgerNext]_vars

\* ------------------------------------------------------ wide batches

\* One thread calls execute_parallel with the parallel strategy and
\* requested counts of none, of the default, and of one more than the
\* catalog has of the class; every model call answers after a second.
WideArguments ==
  { Arguments("parallel", ni, nk,
              [module |-> "code_generation", context |-> "ctx_code"]) :
      ni \in {0, DefaultInterface, Len(get_interface_llms) + 1},
      nk \in {0, DefaultKnowledge, Len(get_knowledge_llms) + 1} }

WideBehaviours == { b \in Behaviours : b.kind = "ok" /\ b.conf = 95 /\ b.dur = 1 }

WideExecute(e) ==
  /\ nexec[e] < MaxExecutions
  /\ \E a \in WideArguments : ExecuteWith(e, a)

WideStartTask == StartTaskOf(WideBehaviours)

WideNext ==
  \/ WideExecute("c1")
  \/ Submit("c1")
  \/ Collect("c1")
  \/ Build("c1")
  \/ UpdateStatistics("c1")
  \/ AppendHistory("c1")
  \/ WideStartTask
  \/ Tick

WideSpec == Init /\ [][WideNext]_vars

\* ------------------------------------------------- successive batches

\* One thread makes two parallel calls, one after the other, each for every
\* model of the catalog's two classes or for the first interface model
\* alone. What a model does when it is invoked is the same in every
\* execution: the first interface model answers after a second, every other
\* model never returns.
SuccessiveArguments ==
  { Arguments("parallel", ni, nk,
              [module |-> "code_generation", context |-> "ctx_code"]) :
      <<ni, nk>> \in { <<Len(get_interface_llms), Len(get_knowledge_llms)>>,
                       <<1, 0>> } }

ModelBehaviour(llm_id) ==
  IF llm_id = get_interface_llms[1].model_id
  THEN [kind |-> "ok", conf |-> 95, dur |-> 1]
  ELSE [kind |-> "hang", conf |-> 0, dur |-> Never]

\* what the body of the oldest queued task will do
SuccessiveBehaviours ==
  LET h == Head(queue)
  IN  IF h.gen = nexec[h.owner]
      THEN { ModelBehaviour(calls[h.owner][h.i].req.llm_id) }
      ELSE { b \in Behaviours : b.kind = "hang" }

SuccessiveExecute(e) ==
  /\ nexec[e] < MaxSuccessive
  /\ \E a \in SuccessiveArguments : ExecuteWith(e, a)

SuccessiveStartTask == StartTaskOf(SuccessiveBehaviours)

SuccessiveNext ==
  \/ SuccessiveExecute("c1")
  \/ Submit("c1")
  \/ Collect("c1")
  \/ Build("c1")
  \/ UpdateStatistics("c1")
  \/ AppendHistory("c1")
  \/ SuccessiveStartTask
  \/ Tick

SuccessiveSpec == Init /\ [][SuccessiveNext]_vars

\* ---------------------------------------------------- the best result

\* One thread calls execute_parallel with the parallel strategy for two
\* models of each class; a model call answers after a second with
\* confidence 0 or 0.95, or raises.
BestArguments ==
  { Arguments("parallel", DefaultInterface, Len(get_knowledge_llms),
              [module |-> "code_generation", context |-> "ctx_code"]) }

BestBehaviours ==
  { [kind |-> "ok", conf |-> c, dur |-> 1] : c \in {0, 95} }
  \cup { b \in Behaviours : b.kind = "exc" }

BestExecute(e) ==
  /\ nexec[e] < MaxExecutions
  /\ \E a \in BestArguments : ExecuteWith(e, a)

BestStartTask == StartTaskOf(BestBehaviours)

BestNext ==
  \/ BestExecute("c1")
  \/ Submit("c1")
  \/ Collect("c1")
  \/ Build("c1")
  \/ UpdateStatistics("c1")
  \/ AppendHistory("c1")
  \/ BestStartTask
  \/ Tick

BestSpec == Init /\ [][BestNext]_vars

\* --------------------------------------------------- completion order

\* One thread calls execute_parallel with a pooled strategy for two models
\* of each class; every model call answers with the same confidence, after
\* 1 or after 20 seconds, so the calls complete in any order within their
\* waits.
OrderArguments ==
  { Arguments(strategy, DefaultInterface, Len(get_knowledge_llms),
              [module |-> "code_generation", context |-> "ctx_code"]) :
      strategy \in {"parallel", "consensus"} }

OrderBehaviours == { [kind |-> "ok", conf |-> 95, dur |-> d] : d \in {1, 20} }

OrderExecute(e) ==
  /\ nexec[e] < MaxExecutions
  /\ \E a \in OrderArguments : ExecuteWith(e, a)

OrderStartTask == StartTaskOf(OrderBehaviours)

OrderNext ==
  \/ OrderExecute("c1")
  \/ Submit("c1")
  \/ Collect("c1")
  \/ Build("c1")
  \/ UpdateStatistics("c1")
  \/ AppendHistory("c1")
  \/ OrderStartTask
  \/ Tick

OrderSpec == Init /\ [][OrderNext]_vars

\* =============================================================== claims

HasResult(e) == result[e] # <<>>

TheResult(e) == result[e][1]

\* the invocation results an execution result contains
Results(e) ==
  TheResult(e).interface_llm_results \o TheResult(e).knowledge_llm_results

Failed(c) ==
  \/ c.verdict = "timeout"
  \/ c.verdict = "returned" /\ ~c.resp[1].success

Succeeded(c) == c.verdict = "returned" /\ c.resp[1].success

\* the results an execution result holds for the request of call c
ResultsFor(e, c) ==
  { j \in 1 .. Len(Results(e)) :
      /\ Results(e)[j].llm_id = c.req.llm_id
      /\ Results(e)[j].llm_type = c.req.llm_type }

\* C1: the execution result of a pooled dispatch (parallel, consensus) of N
\* requests holds exactly N invocation results, exactly one for each request
\* with that request's model id and class, whatever the calls did.
C1_Cardinality ==
  \A e \in Callers :
    HasResult(e) /\ Pooled(e) =>
      /\ Len(Results(e)) = Len(calls[e])
      /\ \A i \in 1 .. Len(calls[e]) :
           Cardinality(ResultsFor(e, calls[e][i])) = 1

\* C2: in a pooled dispatch each call is judged against its own deadline,
\* measured from its own submission: a call recorded as timed out is recorded
\* when 30 seconds have passed since it was submitted, and a call whose
\* response was taken had ended within 30 seconds of its submission.
C2_OwnDeadline ==
  \A e \in Callers :
    Pooled(e) =>
      \A i \in 1 .. Len(calls[e]) :
        LET c == calls[e][i]
        IN  /\ c.verdict = "timeout" => c.age = Timeout
            /\ c.verdict = "returned" =>
                 c.delay + c.resp[1].processing_time <= Timeout

IsPrefix(p, t) == Len(p) <= Len(t) /\ SubSeq(t, 1, Len(p)) = p

\* C3: in the parallel strategy, when at least one invoked model succeeds
\* while others fail or time out, the execution result has success = TRUE,
\* its synthesized text begins with the text of a successful result, and
\* every failed or timed-out member is in the result list of its class as a
\* failed invocation result.
C3_PartialFailureSurfaced ==
  \A e \in Callers :
    ( /\ HasResult(e)
      /\ args[e].strategy = "parallel"
      /\ \E i \in 1 .. Len(calls[e]) : Succeeded(calls[e][i]) )
    =>
      /\ TheResult(e).success
      /\ \E j \in 1 .. Len(Results(e)) :
           /\ Results(e)[j].success
           /\ Results(e)[j].response_text # <<>>
           /\ IsPrefix(Results(e)[j].response_text, TheResult(e).synthesized_result)
      /\ \A i \in 1 .. Len(calls[e]) :
           Failed(calls[e][i]) =>
             LET c == calls[e][i]
                 list == IF c.req.llm_type = "interface"
                         THEN TheResult(e).interface_llm_results
                         ELSE TheResult(e).knowledge_llm_results
             IN  \E j \in 1 .. Len(list) :
                   /\ list[j].llm_id = c.req.llm_id
                   /\ list[j].llm_type = c.req.llm_type
                   /\ ~list[j].success

\* C3 witness: a returned parallel execution in which one call succeeded,
\* one returned a failure and one timed out.
C3_Witness ==
  \E e \in Callers :
    /\ HasResult(e)
    /\ pc[e] = "idle"
    /\ args[e].strategy = "parallel"
    /\ \E i, j, k \in 1 .. Len(calls[e]) :
         /\ Succeeded(calls[e][i])
         /\ calls[e][j].verdict = "timeout"
         /\ calls[e][k].verdict = "returned" /\ ~calls[e][k].resp[1].success

\* C4: for every strategy, when every invoked model fails (returns a failed
\* result or times out), the execution result has success = FALSE, combined
\* confidence 0 and an empty synthesized text.
C4_AllFailed ==
  \A e \in Callers :
    ( /\ HasResult(e)
      /\ calls[e] # <<>>
      /\ \A i \in 1 .. Len(calls[e]) : Failed(calls[e][i]) )
    =>
      /\ ~TheResult(e).success
      /\ TheResult(e).confidence_score = 0
      /\ TheResult(e).synthesized_result = <<>>

\* the errors by which the engine says that it found no model to invoke
NoModelsErrors ==
  {"No LLMs available", "No interface LLMs available", "No knowledge LLMs available"}

RefusedForLackOfModels(e) ==
  /\ calls[e] = <<>>
  /\ ~TheResult(e).success
  /\ TheResult(e).llms_executed = 0
  /\ TheResult(e).error \in NoModelsErrors

\* a class the strategy needs has no model selected
LacksNeededClass(a) ==
  LET no_interface == Len(SelectedInterface(a)) = 0
      no_knowledge == Len(SelectedKnowledge(a)) = 0
  IN  CASE a.strategy \in {"parallel", "sequential"} -> no_interface \/ no_knowledge
        [] a.strategy = "interface_only" -> no_interface
        [] a.strategy = "knowledge_only" -> no_knowledge
        [] OTHER -> no_interface /\ no_knowledge

\* the strategy has no model at all to invoke
LacksEveryModel(a) ==
  LET no_interface == Len(SelectedInterface(a)) = 0
      no_knowledge == Len(SelectedKnowledge(a)) = 0
  IN  CASE a.strategy = "interface_only" -> no_interface
        [] a.strategy = "knowledge_only" -> no_knowledge
        [] OTHER -> no_interface /\ no_knowledge

C6_EveryExecuteReturns ==
  \A e \in Callers : (pc[e] # "idle") ~> (pc[e] = "idle")

\* an error text that names a timeout: none of the texts of other failures
IsTimeoutError(err) == err \notin ({None, "", "exception"} \cup NoModelsErrors)

\* the body of call c had not ended 30 seconds after the call was submitted
\* (pooled) or made (on the caller's thread)
MissedDeadline(c) ==
  \/ c.st = "queued"
  \/ /\ c.st \in {"running", "inline"}
     /\ \/ c.kind = "hang"
        \/ c.delay + c.resp[1].processing_time > Timeout

\* C7: for every strategy, a model call that has not completed by its
\* deadline is in the execution result as a failed invocation result whose
\* error names a timeout, and never as a success.
C7_TimeoutReported ==
  \A e \in Callers :
    HasResult(e) =>
      \A i \in 1 .. Len(calls[e]) :
        MissedDeadline(calls[e][i]) =>
          /\ ResultsFor(e, calls[e][i]) # {}
          /\ \A j \in ResultsFor(e, calls[e][i]) :
               /\ ~Results(e)[j].success
               /\ IsTimeoutError(Results(e)[j].error)

\* the step in which _execute_single_llm starts for call i of caller e
Invokes(e, i) ==
  /\ i \in 1 .. Len(calls[e])
  /\ Len(calls'[e]) = Len(calls[e])
  /\ calls[e][i].st \in {"new", "queued"}
  /\ calls'[e][i].st \in {"running", "inline"}

C9_InvocationResultInvariant ==
  \A e \in Callers :
    HasResult(e) =>
      \A j \in 1 .. Len(Results(e)) :
        LET r == Results(e)[j]
        IN  /\ ~r.success => r.response_text = <<>> /\ r.error \notin {None, ""}
            /\ r.success => r.confidence_score >= 0 /\ r.confidence_score <= 100

\* C10: every execution result with success = FALSE carries a non-empty
\* error.
C10_FailureCarriesError ==
  \A e \in Callers :
    HasResult(e) /\ ~TheResult(e).success =>
      TheResult(e).error \notin {None, ""}

\* a model invocation that is running: its body has started and not ended
Running(c) == c.st \in {"running", "inline"} /\ c.left # 0

\* the model invocations running at this moment, for all executions
InFlight ==
  LET Count(e) == SeqSum([i \in 1 .. Len(calls[e]) |->
                            IF Running(calls[e][i]) THEN 1 ELSE 0])
      RECURSIVE Total(_)
      Total(S) == IF S = {} THEN 0
                  ELSE LET e == CHOOSE x \in S : TRUE
                       IN  Count(e) + Total(S \ {e})
  IN  Total(Callers) + ZombieCount

\* C11: at every moment, over all execute calls in progress and all
\* strategies, at most max_workers (8) model invocations are running.
C11_InFlightWithinPool == InFlight <= max_workers

\* the module and the context a normally ending invocation has worked with:
\* they are part of the text it returns
UsedModule(c) == c.resp[1].response_text[3]

UsedContext(c) == c.resp[1].response_text[4]

\* C12: when execute calls with different module and context overlap on the
\* shared executor, every model invocation made for an execution works with
\* the module and the context that were passed to that execution.
C12_OwnModuleAndContext ==
  \A e \in Callers : \A i \in 1 .. Len(calls[e]) :
    LET c == calls[e][i]
    IN  c.st \in {"running", "inline"} /\ c.kind = "ok" =>
          /\ UsedModule(c) = args[e].module
          /\ UsedContext(c) = args[e].context

\* every thread has returned from its execute call
AllReturned == \A e \in Callers : pc[e] = "idle"

\* C13: when several execute calls run at the same time on the shared
\* executor no ledger update is lost: once all of them have returned,
\* total_executions is the number of executions that were recorded (each
\* left one entry in execution_history) and parallel_executions +
\* single_executions = total_executions.
C13_NoLostUpdate ==
  AllReturned =>
    /\ statistics.total_executions = Len(execution_history)
    /\ statistics.parallel_executions + statistics.single_executions
         = statistics.total_executions

\* C14: every get_statistics snapshot, also one taken while an execution is
\* being recorded, shows each execution completely or not at all:
\* history_count = total_executions and parallel_executions +
\* single_executions = total_executions.
C14_SnapshotConsistent ==
  /\ get_statistics.history_count = get_statistics.total_executions
  /\ get_statistics.parallel_executions + get_statistics.single_executions
       = get_statistics.total_executions

\* C15: after K execute calls made one after another, whatever their
\* strategies, counts and outcomes (the no-models outcome included), the
\* ledger shows total_executions = K and parallel_executions +
\* single_executions = K.
C15_LedgerCountsEveryCall ==
  \A e \in Callers :
    pc[e] = "idle" /\ (\A o \in Callers \ {e} : nexec[o] = 0) =>
      /\ statistics.total_executions = nexec[e]
      /\ statistics.parallel_executions + statistics.single_executions = nexec[e]

\* C16: after n recorded executions the recent_executions of a
\* get_statistics snapshot are exactly the min(n, 10) most recent summaries,
\* in the order they were recorded: its i-th entry is the summary recorded
\* as number n - min(n, 10) + i, so the oldest summary leaves the list when
\* the eleventh is recorded.
C16_RecentWindow ==
  LET n == Len(execution_history)
      recent == get_statistics.recent_executions
      k == IF n < HistoryWindow THEN n ELSE HistoryWindow
  IN  /\ Len(recent) = k
      /\ \A i \in 1 .. k : recent[i] = execution_history[n - k + i]

\* C16 witness: more than ten executions have been recorded, and the oldest
\* summary, which differs from the second, is no longer the first of
\* recent_executions.
C16_Witness ==
  /\ pc["c1"] = "idle"
  /\ Len(execution_history) > HistoryWindow
  /\ execution_history[1] # execution_history[2]
  /\ get_statistics.recent_executions[1] = execution_history[2]
  /\ get_statistics.recent_executions[1] # execution_history[1]

\* the successful results of a list, as positions
SuccessesIn(rs) == { j \in 1 .. Len(rs) : rs[j].success }

\* the successful results of highest confidence of a list, as positions
BestIn(rs) ==
  { j \in SuccessesIn(rs) :
      \A k \in SuccessesIn(rs) : rs[k].confidence_score <= rs[j].confidence_score }

\* text t is first, then something, then later (and possibly more)
FollowedBy(t, first, later) ==
  /\ IsPrefix(first, t)
  /\ \E a \in (Len(first) + 2) .. (Len(t) - Len(later) + 1) :
       SubSeq(t, a, a + Len(later) - 1) = later

\* C17: in the parallel and sequential strategies the combined confidence
\* is 0.7 x best interface confidence + 0.3 x best knowledge confidence when
\* both classes have a successful result, and the text is then the best
\* interface text followed by a knowledge-context block that holds the
\* best knowledge text; it is 0.8 x best interface confidence with the
\* interface text when only the interface class has one, and 0.6 x best
\* knowledge confidence with the knowledge text when only the knowledge
\* class has one. (A result's confidence is in thousandths, an invocation's
\* in hundredths.)
C17_SynthesisWeights ==
  \A e \in Callers :
    HasResult(e) /\ args[e].strategy \in {"parallel", "sequential"} =>
      LET r == TheResult(e)
          is == r.interface_llm_results
          ks == r.knowledge_llm_results
      IN  /\ BestIn(is) # {} /\ BestIn(ks) # {} =>
                \E i \in BestIn(is), k \in BestIn(ks) :
                  /\ r.confidence_score
                       = 7 * is[i].confidence_score + 3 * ks[k].confidence_score
                  /\ FollowedBy(r.synthesized_result, is[i].response_text,
                                ks[k].response_text)
          /\ BestIn(is) # {} /\ BestIn(ks) = {} =>
                \E i \in BestIn(is) :
                  /\ r.confidence_score = 8 * is[i].confidence_score
                  /\ r.synthesized_result = is[i].response_text
          /\ BestIn(is) = {} /\ BestIn(ks) # {} =>
                \E k \in BestIn(ks) :
                  /\ r.confidence_score = 6 * ks[k].confidence_score
                  /\ r.synthesized_result = ks[k].response_text

\* C17 witness: a parallel execution returned with two successful interface
\* results, the second the more confident, and a successful knowledge
\* result, and its confidence is 0.7 x 0.95 + 0.3 x 0.30.
C17_Witness ==
  \E e \in Callers :
    /\ HasResult(e)
    /\ pc[e] = "idle"
    /\ args[e].strategy = "parallel"
    /\ Len(TheResult(e).interface_llm_results) = 2
    /\ Len(TheResult(e).knowledge_llm_results) = 1
    /\ TheResult(e).interface_llm_results[1].success
    /\ TheResult(e).interface_llm_results[1].confidence_score = 30
    /\ TheResult(e).interface_llm_results[2].success
    /\ TheResult(e).interface_llm_results[2].confidence_score = 95
    /\ TheResult(e).knowledge_llm_results[1].success
    /\ TheResult(e).knowledge_llm_results[1].confidence_score = 30
    /\ TheResult(e).confidence_score = 755

\* the calls of an execution whose responses were collected, as positions
\* in submission order
Collected(e) == { i \in 1 .. Len(calls[e]) : calls[e][i].verdict = "returned" }

\* C18: in the consensus strategy the synthesized text and the confidence
\* of the execution result are those of the result of highest confidence
\* among the collected results, whatever its class; when several share the
\* highest confidence it is the one submitted first; a result of lower
\* confidence is never chosen.
C18_ConsensusHighestFirst ==
  \A e \in Callers :
    HasResult(e) /\ args[e].strategy = "consensus" /\ Collected(e) # {} =>
      \E i \in Collected(e) :
        LET best == calls[e][i].resp[1]
        IN  /\ \A j \in Collected(e) :
                 calls[e][j].resp[1].confidence_score <= best.confidence_score
            /\ \A j \in Collected(e) :
                 j < i => calls[e][j].resp[1].confidence_score < best.confidence_score
            /\ TheResult(e).synthesized_result = best.response_text
            /\ TheResult(e).confidence_score = 10 * best.confidence_score

\* C18 witness: a consensus execution returned with three results of
\* confidence 0.30, 0.95 and 0.95, in that order, and reports the text of the
\* second.
C18_Witness ==
  \E e \in Callers :
    /\ HasResult(e)
    /\ pc[e] = "idle"
    /\ args[e].strategy = "consensus"
    /\ Collected(e) = {1, 2, 3}
    /\ calls[e][1].resp[1].confidence_score = 30
    /\ calls[e][2].resp[1].confidence_score = 95
    /\ calls[e][3].resp[1].confidence_score = 95
    /\ calls[e][2].resp[1].response_text # calls[e][3].resp[1].response_text
    /\ TheResult(e).synthesized_result = calls[e][2].resp[1].response_text

\* the elapsed times of the results at positions J of rs, added up
RECURSIVE ElapsedSum(_, _)
ElapsedSum(rs, J) ==
  IF J = {} THEN 0
  ELSE LET j == CHOOSE x \in J : TRUE
       IN  rs[j].processing_time + ElapsedSum(rs, J \ {j})

\* m is the largest elapsed time of the results rs
IsLargestElapsed(rs, m) ==
  /\ \E j \in 1 .. Len(rs) : rs[j].processing_time = m
  /\ \A j \in 1 .. Len(rs) : rs[j].processing_time <= m

\* C19: in the parallel strategy the reported speedup is the sum of the
\* elapsed times of all invocation results divided by the largest of them,
\* whenever the largest is positive: speedup x largest = sum.
C19_SpeedupIsSumOverMax ==
  \A e \in Callers :
    HasResult(e) /\ args[e].strategy = "parallel" =>
      \A m \in { Results(e)[j].processing_time : j \in 1 .. Len(Results(e)) } :
        m > 0 /\ IsLargestElapsed(Results(e), m) =>
          /\ TheResult(e).parallel_speedup[2] > 0
          /\ TheResult(e).parallel_speedup[1] * m
               = ElapsedSum(Results(e), 1 .. Len(Results(e)))
                 * TheResult(e).parallel_speedup[2]

\* C19 witness: a parallel execution returned with three results whose
\* elapsed times are 0 (timed out), 45 and 1 seconds: speedup 46/45.
C19_Witness ==
  \E e \in Callers :
    /\ HasResult(e)
    /\ pc[e] = "idle"
    /\ args[e].strategy = "parallel"
    /\ Len(Results(e)) = 3
    /\ Results(e)[1].processing_time = 0
    /\ Results(e)[2].processing_time = 45
    /\ Results(e)[3].processing_time = 1
    /\ TheResult(e).parallel_speedup = <<46, 45>>

\* the class of a single-class strategy, the count requested for it and
\* the models of the class in catalog order
SingleClass(a) == IF a.strategy = "interface_only" THEN "interface" ELSE "knowledge"

RequestedCount(a) ==
  IF a.strategy = "interface_only" THEN a.num_interface_llms ELSE a.num_knowledge_llms

\* thread e is in, or has returned from, a single-class execution
SingleClassExecution(e) ==
  nexec[e] > 0 /\ args[e].strategy \in {"interface_only", "knowledge_only"}

\* the execution of e made exactly one model call, to the first model of its
\* class in catalog order
InvokesFirstOfClass(e) ==
  /\ Len(calls[e]) = 1
  /\ calls[e][1].req.llm_type = SingleClass(args[e])
  /\ calls[e][1].req.llm_id = get_llms_by_type(SingleClass(args[e]))[1].model_id

\* the execution result of e hands on the result of its one model call
PassesThrough(e) ==
  LET r == TheResult(e)
      response == calls[e][1].resp[1]
  IN  /\ calls[e][1].verdict = "returned"
      /\ Results(e) = << response >>
      /\ r.llms_executed = 1
      /\ r.synthesized_result = response.response_text
      /\ r.confidence_score = 10 * response.confidence_score
      /\ r.success = response.success
      /\ ~response.success => r.error = response.error

\* C20 as claimed: an interface_only (knowledge_only) execution invokes
\* exactly one model, the first of its class in catalog order, whatever
\* count was requested, and its result passes that model's invocation result
\* through unchanged.
C20_OneModelWhateverCount ==
  \A e \in Callers :
    SingleClassExecution(e) =>
      /\ InvokesFirstOfClass(e)
      /\ HasResult(e) => PassesThrough(e)

\* C20 as amended: it does so whatever count of at least one was requested;
\* with a requested count of 0 it invokes no model and returns the no-models
\* failure.
C20_OneModelWhateverPositiveCount ==
  \A e \in Callers :
    SingleClassExecution(e) =>
      /\ RequestedCount(args[e]) >= 1 =>
           /\ InvokesFirstOfClass(e)
           /\ HasResult(e) => PassesThrough(e)
      /\ RequestedCount(args[e]) = 0 =>
           /\ calls[e] = <<>>
           /\ HasResult(e)
           /\ RefusedForLackOfModels(e)

\* C20 witness: an interface_only execution for which two models were
\* requested returned the failure of the one call it made, error included.
C20_Witness ==
  \E e \in Callers :
    /\ HasResult(e)
    /\ pc[e] = "idle"
    /\ args[e].strategy = "interface_only"
    /\ args[e].num_interface_llms = 2
    /\ Len(calls[e]) = 1
    /\ calls[e][1].kind = "exc"
    /\ ~TheResult(e).success
    /\ TheResult(e).error = "exception"

\* ------------------------------------------------------------------ C21

\* how many models of its own class the catalog lists up to position p
CatalogRank(p) ==
  Cardinality({ q \in 1 .. p :
                  COGNIWARE_LLMS[q].model_type = COGNIWARE_LLMS[p].model_type })

\* the catalog positions a parallel execution with arguments a is to invoke:
\* the first num_interface_llms interface models and the first
\* num_knowledge_llms knowledge models, or all there are of the class
ToInvoke(a) ==
  { p \in 1 .. Len(COGNIWARE_LLMS) :
      \/ /\ COGNIWARE_LLMS[p].model_type = "interface"
         /\ CatalogRank(p) <= a.num_interface_llms
      \/ /\ COGNIWARE_LLMS[p].model_type = "knowledge"
         /\ CatalogRank(p) <= a.num_knowledge_llms }

\* the calls of e's execution that are made to the model at catalog position p
CallsTo(e, p) ==
  { i \in 1 .. Len(calls[e]) :
      calls[e][i].req.llm_id = COGNIWARE_LLMS[p].model_id }

\* C21: in the parallel strategy with requested counts K and M, the models
\* invoked are exactly the first min(K, number of interface models)
\* interface models and the first min(M, number of knowledge models)
\* knowledge models of the catalog, in catalog order within their class,
\* each by exactly one call made as a model of its catalog class, and no
\* model of another class is invoked; once the execution has its result,
\* every one of these calls has run.
C21_ParallelSelection ==
  \A e \in Callers :
    (nexec[e] > 0 /\ args[e].strategy = "parallel") =>
      /\ \A p \in 1 .. Len(COGNIWARE_LLMS) :
           Cardinality(CallsTo(e, p)) = IF p \in ToInvoke(args[e]) THEN 1 ELSE 0
      /\ \A i \in 1 .. Len(calls[e]) :
           \E p \in ToInvoke(args[e]) :
             /\ i \in CallsTo(e, p)
             /\ calls[e][i].req.llm_type = COGNIWARE_LLMS[p].model_type
      /\ \A p \in ToInvoke(args[e]), q \in ToInvoke(args[e]) :
           (p < q /\ COGNIWARE_LLMS[p].model_type = COGNIWARE_LLMS[q].model_type) =>
             \A i \in CallsTo(e, p), j \in CallsTo(e, q) : i < j
      /\ HasResult(e) =>
           \A i \in 1 .. Len(calls[e]) : calls[e][i].st = "running"

\* an execution that asked for more interface and more knowledge models
\* than the catalog has returned with every model of both classes invoked
C21_Witness ==
  /\ HasResult("c1")
  /\ args["c1"].strategy = "parallel"
  /\ args["c1"].num_interface_llms > Len(get_interface_llms)
  /\ args["c1"].num_knowledge_llms > Len(get_knowledge_llms)
  /\ Len(calls["c1"]) = Len(get_interface_llms) + Len(get_knowledge_llms)
  /\ \A i \in 1 .. Len(calls["c1"]) : calls["c1"][i].verdict = "returned"

\* ------------------------------------------------------------------ C22

\* ceil(n / k)
CeilDiv(n, k) == (n + k - 1) \div k

\* The seconds a pooled dispatch has taken: its calls are all submitted at
\* its start, and the age of a call runs from its submission to the moment
\* the dispatch has its outcome for it, the last one at the dispatch's end.
DispatchSeconds(e) ==
  LET ages == { calls[e][i].age : i \in 1 .. Len(calls[e]) }
  IN  IF ages = {} THEN 0 ELSE CHOOSE a \in ages : \A b \in ages : b <= a

\* C22: a pooled dispatch of N calls returns within
\* ceil(N / pool size) x the per-call deadline of its start, whatever its
\* calls do (a batch no larger than the pool within one deadline).
C22_DispatchWithinDeadline ==
  \A e \in Callers :
    (Pooled(e) /\ HasResult(e)) =>
      DispatchSeconds(e) <= CeilDiv(Len(calls[e]), max_workers) * Timeout

\* ------------------------------------------------------------------ C23

\* The invocation result a parallel execution with module and context of a
\* holds for its request req when the request's model does what
\* ModelBehaviour says: the model's response, or the timeout failure for a
\* model that never returns.
OutcomeOf(a, req) ==
  LET b == ModelBehaviour(req.llm_id)
  IN  IF b.kind = "hang" THEN ErrorResponse(req)
      ELSE SingleLLMResponse(req, a.module, a.context, b)

\* The execution result of a parallel execute call with arguments a as its
\* arguments, the catalog and the behaviour of the models it calls
\* determine it.
DeterminedResult(a) ==
  LET interface_llms == Slice(get_interface_llms, a.num_interface_llms)
      knowledge_llms == Slice(get_knowledge_llms, a.num_knowledge_llms)
      rq == ParallelRequests(interface_llms, knowledge_llms)
      rs == [i \in 1 .. Len(rq) |-> OutcomeOf(a, rq[i])]
  IN  ParallelResult(SelectSeq(rs, LAMBDA r : r.llm_type = "interface"),
                     SelectSeq(rs, LAMBDA r : r.llm_type = "knowledge"))

\* C23: the execution result of an execute call depends only on its own
\* arguments, the catalog and the behaviour of the model calls it makes:
\* it is the same whether or not an earlier execute call was made on the
\* executor, also when model calls of that earlier execution timed out and
\* were abandoned.
C23_ResultIndependentOfEarlierCalls ==
  \A e \in Callers :
    (HasResult(e) /\ args[e].strategy = "parallel") =>
      TheResult(e) = DeterminedResult(args[e])

\* the same of the first execute call made on the executor
C23_FirstExecutionDetermined ==
  \A e \in Callers :
    (HasResult(e) /\ args[e].strategy = "parallel" /\ nexec[e] = 1) =>
      TheResult(e) = DeterminedResult(args[e])

\* ------------------------------------------------------------------ C24

\* C24: the history the ledger stores is a ring of fixed capacity: after any
\* number of executions it holds at most 10 summaries (the oldest is
\* evicted when an eleventh is appended), so it does not grow with the
\* number of executions.
C24_StoredHistoryBounded ==
  Len(execution_history) <= HistoryWindow

\* ------------------------------------------------------------------ C25

\* the first of the successful results of highest confidence of a list, as
\* a set of at most one position
FirstBestIn(rs) == { j \in BestIn(rs) : \A k \in BestIn(rs) : j <= k }

\* C25: the synthesizer's best result of a class is the successful result
\* of that class with the highest confidence, the first submitted when
\* several share it, also when that confidence is 0; a failed result is
\* never taken for the best, so a class without a successful result
\* contributes nothing, and without any successful result the text is the
\* unable-to-generate message with confidence 0.
C25_BestIsFirstHighestSuccess ==
  \A e \in Callers :
    HasResult(e) /\ args[e].strategy = "parallel" =>
      LET r == TheResult(e)
          is == r.interface_llm_results
          ks == r.knowledge_llm_results
      IN  /\ \A i \in FirstBestIn(is), k \in FirstBestIn(ks) :
                /\ FollowedBy(r.synthesized_result, is[i].response_text,
                              ks[k].response_text)
                /\ \E a \in 1 .. Len(r.synthesized_result) :
                     r.synthesized_result[a] = ks[k].llm_id
                /\ r.confidence_score
                     = 7 * is[i].confidence_score + 3 * ks[k].confidence_score
          /\ FirstBestIn(ks) = {} =>
                \A i \in FirstBestIn(is) :
                  /\ r.synthesized_result = is[i].response_text
                  /\ r.confidence_score = 8 * is[i].confidence_score
          /\ FirstBestIn(is) = {} =>
                \A k \in FirstBestIn(ks) :
                  /\ r.synthesized_result = ks[k].response_text
                  /\ r.confidence_score = 6 * ks[k].confidence_score
          /\ FirstBestIn(is) = {} /\ FirstBestIn(ks) = {} =>
                /\ r.synthesized_result = UnableText
                /\ r.confidence_score = 0

\* C25 witness: a parallel execution returned with a failed interface
\* result followed by a successful one of confidence 0, and two successful
\* knowledge results of equal confidence; its text is the text of the
\* second interface result and the knowledge block of the first knowledge
\* result.
C25_Witness ==
  \E e \in Callers :
    /\ HasResult(e)
    /\ pc[e] = "idle"
    /\ args[e].strategy = "parallel"
    /\ Len(TheResult(e).interface_llm_results) = 2
    /\ Len(TheResult(e).knowledge_llm_results) = 2
    /\ ~TheResult(e).interface_llm_results[1].success
    /\ TheResult(e).interface_llm_results[2].success
    /\ TheResult(e).interface_llm_results[2].confidence_score = 0
    /\ TheResult(e).knowledge_llm_results[1].success
    /\ TheResult(e).knowledge_llm_results[2].success
    /\ TheResult(e).knowledge_llm_results[1].confidence_score
         = TheResult(e).knowledge_llm_results[2].confidence_score
    /\ TheResult(e).knowledge_llm_results[1].response_text
         # TheResult(e).knowledge_llm_results[2].response_text
    /\ FollowedBy(TheResult(e).synthesized_result,
                  TheResult(e).interface_llm_results[2].response_text,
                  TheResult(e).knowledge_llm_results[1].response_text)

\* ------------------------------------------------------------------ C26

\* the calls of e's execution made to a model as a model of class t
CallsOfClass(e, t) ==
  { i \in 1 .. Len(calls[e]) : calls[e][i].req.llm_type = t }

\* C26: in the sequential strategy at most one model of each class is
\* invoked; the knowledge call is made only after the interface call has
\* returned, with a prompt that is the caller's prompt followed by the text
\* the interface call returned as context; and the reported speedup is the
\* constant 0.5 whatever the elapsed times of the calls it made. (With no
\* model of either class selected the strategy is not entered: C5.)
C26_SequentialChain ==
  \A e \in Callers :
    (nexec[e] > 0 /\ args[e].strategy = "sequential") =>
      /\ Cardinality(CallsOfClass(e, "interface")) <= 1
      /\ Cardinality(CallsOfClass(e, "knowledge")) <= 1
      /\ CallsOfClass(e, "interface") \cup CallsOfClass(e, "knowledge")
           = 1 .. Len(calls[e])
      /\ \A i \in CallsOfClass(e, "interface"), k \in CallsOfClass(e, "knowledge") :
           /\ i < k
           /\ calls[e][i].verdict = "returned"
           /\ IsPrefix(RawPrompt, calls[e][k].req.prompt)
           /\ Len(calls[e][k].req.prompt) > Len(RawPrompt) + 1
                => FollowedBy(calls[e][k].req.prompt, RawPrompt,
                              calls[e][i].resp[1].response_text)
           /\ Len(calls[e][k].req.prompt)
                = Len(RawPrompt) + 1 + Len(calls[e][i].resp[1].response_text)
      /\ (HasResult(e) /\ calls[e] # <<>>) =>
           /\ TheResult(e).parallel_speedup[1] * 2 = TheResult(e).parallel_speedup[2]
           /\ TheResult(e).llms_executed = Len(calls[e])

\* C26 witness: a sequential execution returned after an interface call of
\* 45 seconds and a knowledge call of 1 second whose prompt holds the text
\* the interface call returned.
C26_Witness ==
  \E e \in Callers :
    /\ HasResult(e)
    /\ pc[e] = "idle"
    /\ args[e].strategy = "sequential"
    /\ Len(calls[e]) = 2
    /\ calls[e][1].req.llm_type = "interface"
    /\ calls[e][1].resp[1].success
    /\ calls[e][1].resp[1].processing_time = 45
    /\ calls[e][2].req.llm_type = "knowledge"
    /\ calls[e][2].resp[1].processing_time = 1
    /\ calls[e][1].resp[1].response_text # <<>>
    /\ FollowedBy(calls[e][2].req.prompt, RawPrompt,
                  calls[e][1].resp[1].response_text)

\* ------------------------------------------------------------------ C27

\* a pooled call recorded as timed out whose body is still running
AbandonedRunning(c) == c.verdict = "timeout" /\ OnWorker(c)

\* a pooled call recorded as timed out whose body has returned since
CompletedLate(c) == c.verdict = "timeout" /\ Finished(c)

\* What an execution result holds for a call recorded as timed out: in the
\* parallel strategy the one failed result made for the timeout, in the
\* consensus strategy nothing; never the response of the call.
TimeoutStands(e, c) ==
  /\ \A j \in ResultsFor(e, c) :
       /\ ~Results(e)[j].success
       /\ Results(e)[j].response_text = <<>>
       /\ Results(e)[j].error = TimeoutErrorText
  /\ Cardinality(ResultsFor(e, c))
       = IF args[e].strategy = "parallel" THEN 1 ELSE 0

\* the step in which the body of call i of e's execution, recorded as timed
\* out, returns
ReturnsLate(e, i) ==
  /\ AbandonedRunning(calls[e][i])
  /\ nexec'[e] = nexec[e]
  /\ CompletedLate(calls'[e][i])

\* C27: once a pooled call has been recorded as timed out, its later
\* completion has no effect: the execution result holds for it what the
\* timeout made of it and not its response, and the step in which it
\* completes changes no result list, no execution result, no ledger counter
\* and no history entry; the abandoned call is not cancelled: it stays on
\* its pool worker, within the execution and after it, until its body
\* returns.
C27_LateCompletionIgnored ==
  /\ [](\A e \in Callers :
          (HasResult(e) /\ Pooled(e)) =>
            \A i \in 1 .. Len(calls[e]) :
              calls[e][i].verdict = "timeout" => TimeoutStands(e, calls[e][i]))
  /\ [][ \A e \in Callers :
           /\ \A i \in 1 .. Len(calls[e]) :
                /\ ReturnsLate(e, i) =>
                     UNCHANGED <<result, interface_results, knowledge_results,
                                 all_results, statistics, execution_history>>
                /\ (AbandonedRunning(calls[e][i]) /\ nexec'[e] = nexec[e]) =>
                     /\ calls'[e][i].st = "running"
                     /\ calls'[e][i].verdict = "timeout"
                     /\ calls'[e][i].left # calls[e][i].left =>
                          /\ calls[e][i].left > 0
                          /\ calls'[e][i].left >= 0
                          /\ calls'[e][i].left < calls[e][i].left
           /\ nexec'[e] # nexec[e] =>
                Len(zombies')
                  = Len(zombies)
                    + Cardinality({ i \in 1 .. Len(calls[e]) :
                                      AbandonedRunning(calls[e][i]) })
     ]_vars

\* C27 witness: a parallel execution has returned with the timeout failure
\* of its first call, whose body has since returned a successful response,
\* next to the response of its second call.
C27_Witness ==
  \E e \in Callers :
    /\ HasResult(e)
    /\ pc[e] = "idle"
    /\ args[e].strategy = "parallel"
    /\ Len(calls[e]) >= 2
    /\ CompletedLate(calls[e][1])
    /\ calls[e][1].resp[1].success
    /\ ~Results(e)[1].success
    /\ Succeeded(calls[e][2])
    /\ statistics.total_executions = nexec[e]

\* ------------------------------------------------------------------ C28

\* C28: in the parallel and consensus strategies every request of the batch
\* has been submitted to the pool before the result of any of them is
\* awaited; a batch no larger than the number of free workers then has all
\* its calls in flight together: each is started the moment it is
\* submitted, none waits in the pool's queue while time passes.
C28_SubmittedBeforeAwaited ==
  \A e \in Callers :
    Pooled(e) =>
      /\ (pc[e] = "collect" \/ \E i \in 1 .. Len(calls[e]) :
                                 calls[e][i].verdict # "pending")
           => \A j \in 1 .. Len(calls[e]) : calls[e][j].st # "new"
      /\ Len(calls[e]) + ZombieCount <= max_workers =>
           \A j \in 1 .. Len(calls[e]) :
             /\ calls[e][j].delay = 0
             /\ calls[e][j].age > 0 => calls[e][j].st = "running"

\* C28 witness: the caller waits for the first result of a batch of three
\* while all three calls are running on pool workers.
C28_Witness ==
  \E e \in Callers :
    /\ Pooled(e)
    /\ pc[e] = "collect"
    /\ idx[e] = 1
    /\ Len(calls[e]) = DefaultInterface + DefaultKnowledge
    /\ \A j \in 1 .. Len(calls[e]) :
         /\ OnWorker(calls[e][j])
         /\ calls[e][j].verdict = "pending"

\* ------------------------------------------------------------------ C29

\* the position in the submission order of e's execution of the call that
\* invocation result r belongs to
SubmittedAs(e, r) ==
  { i \in 1 .. Len(calls[e]) :
      /\ calls[e][i].req.llm_id = r.llm_id
      /\ calls[e][i].req.llm_type = r.llm_type }

\* the position of the model of invocation result r in the catalog
CatalogPosition(r) ==
  { p \in 1 .. Len(COGNIWARE_LLMS) : COGNIWARE_LLMS[p].model_id = r.llm_id }

\* the results of list rs are in submission order and in catalog order
InSubmissionOrder(e, rs) ==
  \A j \in 1 .. Len(rs), k \in 1 .. Len(rs) :
    j < k =>
      /\ \A a \in SubmittedAs(e, rs[j]), b \in SubmittedAs(e, rs[k]) : a < b
      /\ \A p \in CatalogPosition(rs[j]), q \in CatalogPosition(rs[k]) : p < q

\* the second at which the body of call c returned, counted from the start
\* of the dispatch
CompletedAt(c) == c.delay + c.resp[1].processing_time

C30_CountAndClasses ==
  \A e \in Callers :
    HasResult(e) =>
      LET r == TheResult(e)
      IN  /\ r.llms_executed
               = Len(r.interface_llm_results) + Len(r.knowledge_llm_results)
          /\ \A j \in 1 .. Len(r.interface_llm_results) :
               r.interface_llm_results[j].llm_type = "interface"
          /\ \A j \in 1 .. Len(r.knowledge_llm_results) :
               r.knowledge_llm_results[j].llm_type = "knowledge"

\* C30 witness: a parallel execution returned with three results, one
\* of them the failure of a call that timed out and one a knowledge result,
\* and reports llms_executed = 3.
C30_Witness ==
  \E e \in Callers :
    /\ HasResult(e)
    /\ pc[e] = "idle"
    /\ args[e].strategy = "parallel"
    /\ Len(calls[e]) = DefaultInterface + DefaultKnowledge
    /\ calls[e][1].verdict = "timeout"
    /\ Succeeded(calls[e][2])
    /\ Len(TheResult(e).interface_llm_results) = DefaultInterface
    /\ Len(TheResult(e).knowledge_llm_results) = DefaultKnowledge
    /\ TheResult(e).llms_executed = Len(calls[e])

====
